---- MODULE Spec2Model ----
(***************************************************************************)
(* Authenticated transport of the go-ecobank client (package ecobank).     *)
(*                                                                         *)
(* Spec       : NumProcs goroutines call Client.Do on one shared Client.   *)
(*              Each step of Do, getToken, setToken and Login that touches *)
(*              the session or the RWMutex is one action.                  *)
(* SpecRetry  : one HTTP exchange through c.client.Do, attempt by attempt, *)
(*              on a client built by NewClient from a list of options.     *)
(* SpecHash   : generateSecureHashFrom applied to a request struct and a   *)
(*              lab key.                                                   *)
(* SpecOptions: a caller sets fields and the hash of an options object and *)
(*              passes it to NewRequest, which ensures the secure hash.    *)
(* SpecEnvelope: doRequest decoding one response body into the envelope,   *)
(*              the response metadata and the caller's target.             *)
(* SpecErrors : Add calls on one ResponseError, then json.Marshal of it.   *)
(* SpecTime   : a Time or a Date marshalled to and unmarshalled from JSON,  *)
(*              with layouts registered through AddTimeFormat.             *)
(* SpecFormat : formatToStr applied to a value of any type.                *)
(* SpecClient : NewClient with a list of options, then a call of a service *)
(*              method through one of the handles of the client.           *)
(*                                                                         *)
(* Time is counted in hours.  A point in time is a natural number, 0 is    *)
(* the zero time.Time (IsZero).  A token is a record [id, exp]: id 0 is    *)
(* the empty string, exp is the expiry claim of its JWT payload and 0 when *)
(* the string is not a decodable JWT.                                      *)
(***************************************************************************)
EXTENDS Integers, Sequences, FiniteSets, TLC

\* ------------------------------------------------------------------ bounds
NumProcs == 3

MaxCalls == 3

MaxTime == 2

TokenTTL == 1

MaxOpts == 2

MaxForeignRetry == 1

\* fields of a request struct
MaxFields == 3

\* fields of the struct nested in a request
MaxNested == 1

\* NewRequest calls on one options object
MaxRequests == 2

\* fields of an options struct, the embedded secureHashOption not counted
MaxOptionFields == 2

\* messages in the errors list of a response envelope
MaxErrors == 2

\* the largest number handed to formatToStr, in absolute value
MaxNumber == 12

\* layouts registered with AddTimeFormat
MaxRegistered == 2

\* Add calls on one ResponseError
MaxAdds == 4

\* ------------------------------------------------------- program constants
\* defaultTokenExpiry = 7200 * time.Second, in hours
defaultTokenExpiry == 2

\* c.client.RetryMax = 5
RetryMax == 5

StatusOK == 200

\* userAgent = "go-ecobank"
userAgent == "go-ecobank"

StatusTooManyRequests == 429

StatusInternalServerError == 500

\* ------------------------------------------------------------------- state
VARIABLES
    token,           \* c.token
    tokenExpiresAt,  \* c.tokenExpiresAt
    tokenMuR,        \* c.tokenMu: the goroutines holding it in shared mode
    tokenMuW,        \* c.tokenMu: the goroutine holding it exclusively, 0 if none
    username,        \* c.username is non-empty
    password,        \* c.password is non-empty
    now,             \* time.Now()
    calls,           \* Do calls started so far
    pc,              \* position of each goroutine in Do / Login
    lresp,           \* Login: what GetAccessToken returned (token, resp, err)
    expiry,          \* Login: local expiry
    nLogin,          \* login requests (POST user/token) issued by the current call
    nWrite,          \* session writes made by the current call
    sawValid,        \* the session this call read first was a valid one
    authHeader,      \* Authorization token of the original request, once sent
    result,          \* outcome of the current call
    opts,            \* options handed to NewClient
    disableRetries,  \* c.disableRetries
    client,          \* c.client: CheckRetry, RetryMax, ErrorHandler
    rpc,             \* position inside c.client.Do
    attempt,         \* attempts made so far
    ctxErr,          \* ctx.Err() != nil
    resp,            \* last attempt: status, transport error
    prev,            \* status of the attempt before the last, 0 if none
    decision,        \* last verdict of CheckRetry: shouldRetry, checkErr
    retries,         \* attempts that were followed by another attempt
    outcome,         \* what doRequest returned
    req,             \* generateSecureHashFrom: the struct v
    labKey,          \* generateSecureHashFrom: key
    digest,          \* generateSecureHashFrom: the value returned, if it was called
    secureHash,      \* opts.SecureHash, the field of the embedded secureHashOption
    body,            \* NewRequest: the body of the request built last
    nreq,            \* NewRequest calls made with opts
    httpBody,        \* the body of the HTTP response doRequest obtained
    target,          \* doRequest: what v is
    ret,             \* what the call returned (result, response, err) and what has become of *v
    agg,             \* a ResponseError
    added,           \* the messages handed to Add so far, in call order
    UserAgent,       \* c.UserAgent
    hasher,          \* the type of opts implements secureHasher (it embeds secureHashOption)
    uaHeader,        \* NewRequest: the values of the User-Agent header of the request built last
    marshalled,      \* json.Marshal of the ResponseError, if it was called since the last Add
    formats,         \* var formats: the layouts Time.UnmarshalJSON tries
    registered,      \* the layouts handed to AddTimeFormat so far, in call order
    tm,              \* a Time, or the Time embedded in a Date
    isDate,          \* the value is a Date
    held,            \* the time the value held before the last UnmarshalJSON
    input,           \* the bytes handed to the last UnmarshalJSON
    output,          \* the bytes the last MarshalJSON returned
    last,            \* the last call on the value: its error, the layout of the list that parsed
    fval,            \* formatToStr: the value v
    fout,            \* formatToStr: what the call came to, if it was made
    handles,         \* c.Auth, c.Account, c.Payment, c.Remittance, c.Status
    svcCall          \* the service method called on the client, and whether it panicked

sessVars == <<token, tokenExpiresAt, tokenMuR, tokenMuW, username, password, now, calls>>

procVars == <<pc, lresp, expiry, nLogin, nWrite, sawValid, authHeader, result>>

cfgVars == <<opts, disableRetries, client>>

retryVars == <<rpc, attempt, ctxErr, resp, prev, decision, retries, outcome>>

hashVars == <<req, labKey, digest>>

optVars == <<secureHash, body, nreq, UserAgent, hasher, uaHeader>>

envVars == <<httpBody, target, ret>>

errVars == <<agg, added, marshalled>>

timeVars == <<formats, registered, tm, isDate, held, input, output, last>>

fmtVars == <<fval, fout>>

svcVars == <<handles, svcCall>>

moreVars == <<timeVars, fmtVars, svcVars>>

dataVars == <<hashVars, optVars, envVars, errVars, moreVars>>

vars == <<sessVars, procVars, cfgVars, retryVars, dataVars>>

Procs == 1..NumProcs

\* ------------------------------------------------------------------ tokens
EmptyToken == [id |-> 0, exp |-> 0]

\* id of the token injected by WithToken / WithTokenAndExpiry
ConfiguredId == NumProcs + 1

NoHeader == [id |-> 0 - 1, exp |-> 0]

\* getTokenExpiry: the exp claim of a JWT, an error for anything else
getTokenExpiry(t) == IF t.exp = 0 THEN [err |-> TRUE, at |-> 0] ELSE [err |-> FALSE, at |-> t.exp]

\* a string read while another goroutine is writing it
TornToken == [id |-> ConfiguredId + 1, exp |-> 0]

\* -------------------------------------------------- construction (options)
\* NewClient, before any option: retryablehttp.NewClient() with the
\* client's own CheckRetry and the pass-through error handler
DefaultClient == [CheckRetry |-> "retryHTTPCheck", RetryMax |-> RetryMax, ErrorHandler |-> "passthrough"]

\* a *retryablehttp.Client supplied by the caller: its own CheckRetry, its
\* own RetryMax, no error handler
ForeignClients == [CheckRetry : {"foreign"}, RetryMax : 0..MaxForeignRetry, ErrorHandler : {"none"}]

Options == [name : {"WithDisableRetries", "WithHTTPClient", "WithRetryPolicy"}, rc : {DefaultClient}] \cup [name : {"WithRetryableClient"}, rc : ForeignClients]

WithHTTPClient(c) == c

WithRetryableClient(c, rc) == [c EXCEPT !.client = rc]

WithDisableRetries(c) == [c EXCEPT !.disableRetries = TRUE]

WithRetryPolicy(c) == [c EXCEPT !.client.CheckRetry = "foreign"]

\* the user agents a caller hands to WithUserAgent: none at all, one's own
UserAgents == {"", "my-app"}

MoreOptions == [name : {"WithUserAgent"}, rc : {DefaultClient}, ua : UserAgents] \cup [name : {"WithBackoff"}, rc : {DefaultClient}]

WithUserAgent(c, ua) == [c EXCEPT !.UserAgent = ua]

\* c.client.Backoff is not looked at here
WithBackoff(c) == c

ApplyOption(c, o) ==
    CASE o.name = "WithHTTPClient" -> WithHTTPClient(c)
      [] o.name = "WithUserAgent" -> WithUserAgent(c, o.ua)
      [] o.name = "WithBackoff" -> WithBackoff(c)
      [] o.name = "WithRetryableClient" -> WithRetryableClient(c, o.rc)
      [] o.name = "WithDisableRetries" -> WithDisableRetries(c)
      [] o.name = "WithRetryPolicy" -> WithRetryPolicy(c)

RECURSIVE ApplyOptions(_, _)
ApplyOptions(c, os) == IF os = <<>> THEN c ELSE ApplyOptions(ApplyOption(c, Head(os)), Tail(os))

\* the service handles of a Client; NewClient (lines 96-98) sets three of them
\* to a service of the client c, the others stay nil
Services == {"Auth", "Account", "Payment", "Remittance", "Status"}

NewClient(os) ==
    ApplyOptions([disableRetries |-> FALSE, client |-> DefaultClient, UserAgent |-> userAgent,
                  handles |-> [sv \in Services |-> IF sv \in {"Auth", "Account", "Payment"} THEN "c" ELSE "nil"]], os)

OptionLists == UNION {[1..n -> Options] : n \in 0..MaxOpts}

\* the token injected by the caller: a JWT with an exp claim, or any other text
ConfiguredTokens == {[id |-> ConfiguredId, exp |-> e] : e \in 0..MaxTime}

\* WithToken: the expiry is the token's exp claim; an undecodable token makes
\* NewClient fail, so no client exists for it
WithToken(t) == [token |-> t, tokenExpiresAt |-> getTokenExpiry(t).at]

WithTokenAndExpiry(t, e) == [token |-> t, tokenExpiresAt |-> e]

\* the sessions NewClient can return
InitialSessions ==
    {[token |-> EmptyToken, tokenExpiresAt |-> 0]}
    \cup {WithToken(t) : t \in {u \in ConfiguredTokens : ~getTokenExpiry(u).err}}
    \cup {WithTokenAndExpiry(t, e) : t \in ConfiguredTokens \cup {EmptyToken}, e \in 0..MaxTime}

\* NewClient(username, password, labKey): which of the two are non-empty
Credentials == {<<FALSE, FALSE>>, <<TRUE, FALSE>>, <<TRUE, TRUE>>}

NoResponse == [err |-> "none", status |-> 0, decoded |-> FALSE, token |-> EmptyToken]

\* ---------------------------------------------------------- request structs
\* A string is a sequence of characters.  A value is a string, an int or a
\* struct; a struct is the sequence of its fields in declaration order, and
\* a field carries what reflection shows of it: whether it is exported,
\* whether it is embedded, its securehash tag, its json tag and its value.
StringValue(s) == [type |-> "string", s |-> s, n |-> 0, fields |-> <<>>]

IntValue(n) == [type |-> "int", s |-> <<>>, n |-> n, fields |-> <<>>]

StructValue(fs) == [type |-> "struct", s |-> <<>>, n |-> 0, fields |-> fs]

Digits == <<"0", "1", "2", "3", "4", "5", "6", "7", "8", "9">>

RECURSIVE Itoa(_)
\* strconv.Itoa
Itoa(n) ==
    IF n < 0 THEN <<"-">> \o Itoa(0 - n)
    ELSE IF n < 10 THEN <<Digits[n + 1]>>
    ELSE Itoa(n \div 10) \o <<Digits[(n % 10) + 1]>>

\* a value of another type of the switch of formatToStr: n is the number of
\* an integer type, 1 for true and 0 for false, and for a float or a decimal
\* the number of quarters; s is the text of a json.Number or a []byte
TypedValue(type, s, n) == [type |-> type, s |-> s, n |-> n, fields |-> <<>>]

SignedTypes == {"int", "int64", "int32", "int16", "int8"}

UnsignedTypes == {"uint", "uint64", "uint32", "uint16", "uint8"}

\* float64, float32 and decimal.Decimal, in quarters
QuarterTypes == {"float64", "float32", "decimal.Decimal"}

\* a nil pointer to a type whose String method has a value receiver, such as
\* (*Time)(nil): it is a fmt.Stringer
NilStringer == TypedValue("nil *Time", <<>>, 0)

\* strconv.FormatBool
FormatBool(n) == IF n = 1 THEN <<"t", "r", "u", "e">> ELSE <<"f", "a", "l", "s", "e">>

\* strconv.FormatFloat(f, 'f', -1, bits) and Decimal.String for n quarters:
\* the shortest decimal text of n/4
FormatQuarters(n) ==
    LET a == IF n < 0 THEN 0 - n ELSE n
        frac == CASE a % 4 = 0 -> <<>>
                  [] a % 4 = 1 -> <<".", "2", "5">>
                  [] a % 4 = 2 -> <<".", "5">>
                  [] a % 4 = 3 -> <<".", "7", "5">>
    IN  (IF n < 0 THEN <<"-">> ELSE <<>>) \o Itoa(a \div 4) \o frac

\* formatToStr panics: s.String() of the fmt.Stringer case is called through
\* a nil pointer
formatToStrPanics(v) == v.type = "nil *Time"

\* formatToStr where it returns: the string itself, the text of a bool, a
\* number, a json.Number, a []byte or a fmt.Stringer, "" for a type that is
\* not in the switch (nil, a struct that is no fmt.Stringer)
formatToStr(v) ==
    CASE v.type = "string" -> v.s
      [] v.type \in QuarterTypes -> FormatQuarters(v.n)
      [] v.type = "bool" -> FormatBool(v.n)
      [] v.type \in SignedTypes \cup UnsignedTypes -> Itoa(v.n)
      [] v.type \in {"json.Number", "[]byte", "fmt.Stringer"} -> v.s
      [] OTHER -> <<>>

\* generateSecureHash: hex(sha512(data + key)).  SHA-512 is taken to be free
\* of collisions: a digest is represented by the text that was hashed.
generateSecureHash(data, key) == [panic |-> FALSE, sha512 |-> data \o key]

\* the call does not return: reflect panics
Panic == [panic |-> TRUE, sha512 |-> <<>>]

\* generateSecureHashFrom line 394: typ is a struct and the json tag of the
\* field is paymentHeader
IsPaymentHeader(f) == f.json = "paymentHeader"

\* Skipped hashing the fields tagged json:"-"
Skipped_NoDash(f) == ~f.exported \/ f.anonymous \/ f.securehash = "ignore" \/ f.json = "secureHash"

\* generateSecureHashFrom lines 399-405: the fields that are passed over
Skipped(f) ==
    \/ ~f.exported
    \/ f.anonymous
    \/ f.securehash = "ignore"
    \/ f.json = "-"
    \/ f.json = "secureHash"

RECURSIVE generateSecureHashFrom(_, _)
RECURSIVE FieldLoop(_, _, _, _)
\* generateSecureHashFrom lines 389-408: the loop over the fields from the
\* i-th on, b is the strings.Builder.  fieldValue.Interface() panics on an
\* unexported field.
FieldLoop(fs, i, b, key) ==
    IF i > Len(fs) THEN generateSecureHash(b, key)
    ELSE IF IsPaymentHeader(fs[i])
         THEN IF fs[i].exported THEN generateSecureHashFrom(fs[i].value, key) ELSE Panic
    ELSE IF Skipped(fs[i]) THEN FieldLoop(fs, i + 1, b, key)
    ELSE IF formatToStrPanics(fs[i].value) THEN Panic
    ELSE FieldLoop(fs, i + 1, b \o formatToStr(fs[i].value), key)

\* generateSecureHashFrom: val.NumField() panics unless v is a struct
generateSecureHashFrom(v, key) ==
    IF v.type # "struct" THEN Panic ELSE FieldLoop(v.fields, 1, <<>>, key)

JsonTags == {"", "-", "secureHash", "paymentHeader", "amount"}

Markers == [exported : BOOLEAN, anonymous : BOOLEAN, securehash : {"", "ignore"}, json : JsonTags]

\* in how many respects m differs from an exported, named, unmarked field
\* tagged json:"amount"
Marks(m) ==
    (IF m.exported THEN 0 ELSE 1) + (IF m.anonymous THEN 1 ELSE 0)
    + (IF m.securehash = "ignore" THEN 1 ELSE 0) + (IF m.json = "amount" THEN 0 ELSE 1)

Field(m, v) ==
    [exported |-> m.exported, anonymous |-> m.anonymous, securehash |-> m.securehash, json |-> m.json, value |-> v]

Scalars == {StringValue(<<>>), StringValue(<<"a">>), IntValue(0)}

\* an exported, named, unmarked field tagged json:"amount"
Plain == [exported |-> TRUE, anonymous |-> FALSE, securehash |-> "", json |-> "amount"]

\* the markers that differ from Plain in one respect, the json tag staying
\* other than paymentHeader
OneMark == {m \in Markers : Marks(m) = 1 /\ m.json # "paymentHeader"}

\* the markers of a named field tagged json:"paymentHeader"
HeaderMarks == {m \in Markers : m.json = "paymentHeader" /\ Marks(m) <= 2 /\ ~m.anonymous}

\* fields of scalar type
ScalarFields ==
    {Field(Plain, v) : v \in Scalars} \cup {Field(m, StringValue(<<"a">>)) : m \in OneMark}

\* the fields of a nested struct
NestedFields == {f \in ScalarFields : f.exported /\ ~f.anonymous /\ f.json \in {"amount", "-"}}

NestedStructs == UNION {[1..k -> NestedFields] : k \in 0..MaxNested}

\* the fields of a request whose struct-valued fields hold h
RequestFields(h) == ScalarFields \cup {Field(m, StructValue(h)) : m \in HeaderMarks \cup {Plain}}

Requests(h) ==
    {fs \in UNION {[1..k -> RequestFields(h)] : k \in 0..MaxFields} :
        h # <<>> => \E i \in 1..Len(fs) : fs[i].value.type = "struct"}

Keys == {<<>>, <<"k">>}

NoDigest == [panic |-> FALSE, sha512 |-> <<"none">>]

HashIdle ==
    /\ req = StructValue(<<>>)
    /\ labKey = <<>>
    /\ digest = NoDigest

NoBody == [fields |-> <<>>, secureHash |-> <<"none">>]

OptionsIdle ==
    /\ secureHash = <<>>
    /\ body = NoBody
    /\ nreq = 0
    /\ UserAgent = userAgent
    /\ hasher = TRUE
    /\ uaHeader = <<>>

\* ------------------------------------------------------------ ResponseError
\* A Go slice of strings: nil, or a sequence of messages.
NilSlice == [nil |-> TRUE, msgs |-> <<>>]

Slice(ms) == [nil |-> FALSE, msgs |-> ms]

RECURSIVE Join(_, _)
\* strings.Join
Join(ms, sep) ==
    IF ms = <<>> THEN <<>>
    ELSE IF Len(ms) = 1 THEN ms[1]
    ELSE ms[1] \o sep \o Join(Tail(ms), sep)

\* ResponseError.Len
ResponseErrorLen(e) == Len(e.msgs)

\* ResponseError.Error
Error(e) == IF ResponseErrorLen(e) = 0 THEN <<>> ELSE Join(e.msgs, <<"\n">>)

\* Add prepending the message
Add_Prepend(e, m) == Slice(<<m>> \o e.msgs)

\* ResponseError.Add: append, which gives a slice that is not nil
Add(e, m) == Slice(e.msgs \o <<m>>)

\* ResponseError.All
All(e) == IF ResponseErrorLen(e) = 0 THEN NilSlice ELSE e

\* ResponseError.String
String(e) == Error(e)

\* json.Marshal of a ResponseError, which has no MarshalJSON of its own: a
\* slice of strings, null when the slice is nil
jsonMarshal(e) ==
    IF e.nil THEN <<"n", "u", "l", "l">>
    ELSE <<"[">> \o Join([i \in 1..Len(e.msgs) |-> <<"\"">> \o e.msgs[i] \o <<"\"">>], <<",">>) \o <<"]">>

Messages == {<<"A">>, <<"B">>}

NotMarshalled == <<"none">>

ErrorsIdle ==
    /\ agg = NilSlice
    /\ added = <<>>
    /\ marshalled = NotMarshalled

\* ------------------------------------------------------- response envelope
\* The body of a response: text that is no JSON, or a JSON object with any of
\* the envelope's fields.  The errors field is absent, null or a list; the
\* content is absent, null, the empty string "", an object that fits the
\* target type or a value that does not; the timestamp is absent, in one of
\* the known layouts or in none of them.
ErrorsFields ==
    {[present |-> "absent", list |-> <<>>], [present |-> "null", list |-> <<>>]}
    \cup {[present |-> "list", list |-> l] : l \in UNION {[1..k -> Messages] : k \in 0..MaxErrors}}

Envelopes ==
    [json : {TRUE}, code : {0, 200}, message : {<<>>, <<"O", "K">>},
     content : {"absent", "null", "emptystring", "object", "mismatch"},
     timestamp : {"absent", "valid", "invalid"}, errors : ErrorsFields]

NotJSON ==
    [json |-> FALSE, code |-> 0, message |-> <<>>, content |-> "absent", timestamp |-> "absent",
     errors |-> [present |-> "absent", list |-> <<>>]]

Bodies == Envelopes \cup {NotJSON}

\* newResponse: Code, Message and Time are zero
newResponse == [nil |-> FALSE, Code |-> 0, Message |-> <<>>, Time |-> "zero"]

NilResponse == [nil |-> TRUE, Code |-> 0, Message |-> <<>>, Time |-> "zero"]

NilError == [kind |-> "nil", agg |-> NilSlice]

\* an error of encoding/json or of Time.UnmarshalJSON
JSONError == [kind |-> "json", agg |-> NilSlice]

NoReturn == [called |-> FALSE, result |-> "nil", v |-> "zero", response |-> NilResponse, err |-> NilError, closed |-> FALSE]

EnvelopeIdle ==
    /\ httpBody = NotJSON
    /\ target = "nil"
    /\ ret = NoReturn

\* ------------------------------------------------------------ Time and Date
\* A point in time is a record of its UTC calendar fields, ms being the
\* milliseconds.  A layout is the sequence of the elements time.Parse and
\* Time.Format cut it into: the reference fields "2006", "01", "02", "15",
\* "04", "05", ".999", "Z07:00", and literal characters.  The layout "" is <<>>.
Instant(y, mo, d, h, mi, s, ms) == [year |-> y, month |-> mo, day |-> d, hour |-> h, min |-> mi, sec |-> s, ms |-> ms]

\* the zero time.Time
ZeroTime == Instant(1, 1, 1, 0, 0, 0, 0)

\* timeFormat = "2006-01-02T15:04:05.999"
timeFormat == <<"2006", "-", "01", "-", "02", "T", "15", ":", "04", ":", "05", ".999">>

\* dateFormat = "20060102"
dateFormat == <<"2006", "01", "02">>

\* time.DateTime = "2006-01-02 15:04:05"
DateTime == <<"2006", "-", "01", "-", "02", " ", "15", ":", "04", ":", "05">>

\* time.RFC3339 = "2006-01-02T15:04:05Z07:00"
RFC3339 == <<"2006", "-", "01", "-", "02", "T", "15", ":", "04", ":", "05", "Z07:00">>

\* time.RFC3339Nano = "2006-01-02T15:04:05.999999999Z07:00", to the millisecond
RFC3339Nano == <<"2006", "-", "01", "-", "02", "T", "15", ":", "04", ":", "05", ".999", "Z07:00">>

\* time.DateOnly = "2006-01-02"
DateOnly == <<"2006", "-", "01", "-", "02">>

\* a layout of a caller, year-day-month: "2006-02-01"
YearDayMonth == <<"2006", "-", "02", "-", "01">>

\* var formats, as declared
DefaultFormats == <<timeFormat, DateTime, RFC3339, DateOnly>>

DigitChars == {Digits[d + 1] : d \in 0..9}

IsDigit(c) == c \in DigitChars

DigitValues == [c \in DigitChars |-> CHOOSE d \in 0..9 : Digits[d + 1] = c]

DigitValue(c) == DigitValues[c]

RECURSIVE Atoi(_)
Atoi(s) == IF s = <<>> THEN 0 ELSE 10 * Atoi(SubSeq(s, 1, Len(s) - 1)) + DigitValue(s[Len(s)])

\* n in decimal, padded with zeros to w digits
Pad(n, w) == [i \in 1..(IF Len(Itoa(n)) >= w THEN 0 ELSE w - Len(Itoa(n))) |-> "0"] \o Itoa(n)

RECURSIVE StripZeros(_)
StripZeros(s) == IF s # <<>> /\ s[Len(s)] = "0" THEN StripZeros(SubSeq(s, 1, Len(s) - 1)) ELSE s

\* the digits of a fraction of a second, to the millisecond
FracMillis(ds) == Atoi(SubSeq(ds \o <<"0", "0", "0">>, 1, 3))

\* the number of digits s starts with
RECURSIVE DigitRun(_)
DigitRun(s) == IF s # <<>> /\ IsDigit(s[1]) THEN 1 + DigitRun(Tail(s)) ELSE 0

IsLeap(y) == y % 4 = 0 /\ (y % 100 # 0 \/ y % 400 = 0)

daysIn(m, y) ==
    IF m = 2 THEN (IF IsLeap(y) THEN 29 ELSE 28)
    ELSE IF m \in {4, 6, 9, 11} THEN 30 ELSE 31

\* the digits a reference field takes and the field of the time it sets
FieldOf(e) ==
    CASE e = "2006" -> [w |-> 4, f |-> "year", lo |-> 0, hi |-> 9999]
      [] e = "01" -> [w |-> 2, f |-> "month", lo |-> 1, hi |-> 12]
      [] e = "02" -> [w |-> 2, f |-> "day", lo |-> 0, hi |-> 99]
      [] e = "15" -> [w |-> 2, f |-> "hour", lo |-> 0, hi |-> 23]
      [] e = "04" -> [w |-> 2, f |-> "min", lo |-> 0, hi |-> 59]
      [] e = "05" -> [w |-> 2, f |-> "sec", lo |-> 0, hi |-> 59]

NumericFields == {"2006", "01", "02", "15", "04", "05"}

ParseError == [ok |-> FALSE, time |-> ZeroTime]

\* s starts with a fraction of a second: '.' and a digit
HasFraction(s) == Len(s) >= 2 /\ s[1] = "." /\ IsDigit(s[2])

RECURSIVE ParseFrom(_, _, _, _)
\* time.Parse from element i of the layout on: s is the text left, t the
\* fields read so far.  Text left over and a day the month does not have
\* are errors; a fraction after the seconds is read whether or not the
\* layout has one.  Every text is in UTC.
ParseFrom(layout, i, s, t) ==
    IF i > Len(layout)
    THEN IF s = <<>> /\ t.day >= 1 /\ t.day <= daysIn(t.month, t.year) THEN [ok |-> TRUE, time |-> t] ELSE ParseError
    ELSE LET e == layout[i] IN
        IF e \in NumericFields
        THEN LET fd == FieldOf(e)
                 n == Atoi(SubSeq(s, 1, fd.w))
                 rest == SubSeq(s, fd.w + 1, Len(s))
                 t1 == [t EXCEPT ![fd.f] = n]
                 k == DigitRun(Tail(rest))
             IN  IF Len(s) < fd.w \/ DigitRun(SubSeq(s, 1, fd.w)) < fd.w \/ n < fd.lo \/ n > fd.hi THEN ParseError
                 ELSE IF e = "05" /\ HasFraction(rest) /\ (i = Len(layout) \/ layout[i + 1] # ".999")
                 THEN ParseFrom(layout, i + 1, SubSeq(rest, k + 2, Len(rest)),
                                [t1 EXCEPT !.ms = FracMillis(SubSeq(rest, 2, k + 1))])
                 ELSE ParseFrom(layout, i + 1, rest, t1)
        ELSE IF e = ".999"
        THEN IF HasFraction(s)
             THEN LET k == DigitRun(Tail(s)) IN
                  ParseFrom(layout, i + 1, SubSeq(s, k + 2, Len(s)), [t EXCEPT !.ms = FracMillis(SubSeq(s, 2, k + 1))])
             ELSE ParseFrom(layout, i + 1, s, t)
        ELSE IF e = "Z07:00"
        THEN IF s # <<>> /\ s[1] = "Z" THEN ParseFrom(layout, i + 1, Tail(s), t) ELSE ParseError
        ELSE IF s # <<>> /\ s[1] = e THEN ParseFrom(layout, i + 1, Tail(s), t) ELSE ParseError

\* parse, the function behind time.Parse: fields the layout does not have are
\* those of January 1 of the year 0, 00:00:00
parse(layout, s) == ParseFrom(layout, 1, s, Instant(0, 1, 1, 0, 0, 0, 0))

RECURSIVE FormatFrom(_, _, _)
FormatFrom(layout, i, t) ==
    IF i > Len(layout) THEN <<>>
    ELSE LET e == layout[i] IN
        (IF e \in NumericFields THEN Pad(t[FieldOf(e).f], FieldOf(e).w)
         ELSE IF e = ".999" THEN (IF t.ms = 0 THEN <<>> ELSE <<".">> \o StripZeros(Pad(t.ms, 3)))
         ELSE IF e = "Z07:00" THEN <<"Z">>
         ELSE <<e>>)
        \o FormatFrom(layout, i + 1, t)

\* time.Time.Format(layout)
Format(layout, t) == FormatFrom(layout, 1, t)

\* fmt.Sprintf("%q", s) of a string without characters to escape
Quote(s) == <<"\"">> \o s \o <<"\"">>

IsQuoted(b) == Len(b) >= 2 /\ b[1] = "\"" /\ b[Len(b)] = "\""

\* the points in time of the values and of the texts
Instants ==
    {Instant(2020, d[1], d[2], c[1], c[2], c[3], c[4]) :
        d \in {<<3, 1>>, <<12, 16>>}, c \in {<<0, 0, 0, 0>>, <<19, 44, 21, 866>>}}

\* the layouts a caller attaches with NewTimeWithLayout
AttachedLayouts == {dateFormat, YearDayMonth}

\* the layouts a caller registers with AddTimeFormat
ExtraLayouts == {YearDayMonth, dateFormat}

\* the JSON texts handed to UnmarshalJSON: times in the layouts of the API
\* and of the standard library, a text without quotes, null, and text that
\* is no time
Texts ==
    {Quote(Format(l, v)) : l \in {timeFormat, DateTime, RFC3339Nano, DateOnly, dateFormat}, v \in Instants}
    \cup {Format(DateOnly, v) : v \in Instants}
    \cup {<<"n", "u", "l", "l">>, Quote(<<"x">>)}

\* a JSON text without its quotes, as Time.UnmarshalJSON lines 82-85 strip them
Unquoted(b) == IF IsQuoted(b) THEN SubSeq(b, 2, Len(b) - 1) ELSE b

Layouts == {timeFormat, DateTime, RFC3339, DateOnly, dateFormat, YearDayMonth}

\* parse over the layouts and the texts used here, computed once
Parsed == [l \in Layouts |-> [s \in {Unquoted(b) : b \in Texts} |-> parse(l, s)]]

\* time.Parse(layout, s)
Parse(layout, s) == Parsed[layout][s]

\* a Time: Time{time, layout}
NewTimeWithLayout(t, layout) == [time |-> t, layout |-> layout]

NewTime(t) == NewTimeWithLayout(t, <<>>)

\* NewDate: Date{Time: NewTimeWithLayout(time, dateFormat)}
NewDate(t) == NewTimeWithLayout(t, dateFormat)

\* Time.String: Format with the layout of the Time, time.DateTime if it has none
TimeString(t) == Format(IF t.layout # <<>> THEN t.layout ELSE DateTime, t.time)

\* Time.MarshalJSON
TimeMarshalJSON(t) == Quote(TimeString(t))

\* the loop of Time.UnmarshalJSON over formats from position i on: the first
\* layout that parses s sets the time and clears the error
RECURSIVE TryFormats(_, _, _, _)
TryFormats(fmts, i, s, t) ==
    IF i > Len(fmts) THEN [t |-> t, err |-> TRUE, by |-> 0]
    ELSE LET r == Parse(fmts[i], s) IN
         IF r.ok THEN [t |-> [t EXCEPT !.time = r.time], err |-> FALSE, by |-> i]
         ELSE TryFormats(fmts, i + 1, s, t)

\* Time.UnmarshalJSON(b) on the receiver t with the list fmts: the receiver
\* after the call, the error, and the position of the layout of the list that
\* parsed (0 if none did, or the layout of t did)
TimeUnmarshalJSON(fmts, t, b) ==
    LET s == Unquoted(b)
        own == Parse(t.layout, s)
        t1 == IF t.layout # <<>> THEN [t EXCEPT !.time = own.time] ELSE t
    IN  IF t.layout # <<>> /\ own.ok THEN [t |-> t1, err |-> FALSE, by |-> 0]
        ELSE IF Len(fmts) = 0 THEN [t |-> t1, err |-> t.layout # <<>>, by |-> 0]
        ELSE TryFormats(fmts, 1, s, t1)

\* time.Time.MarshalJSON: RFC 3339 with the fraction of the second
StdMarshalJSON(t) == Quote(Format(RFC3339Nano, t))

\* time.Time.UnmarshalJSON: null is ignored; anything else has to be a quoted
\* RFC 3339 text, and the time is assigned whatever the parse returns
StdUnmarshalJSON(t, b) ==
    IF b = <<"n", "u", "l", "l">> THEN [time |-> t, err |-> FALSE]
    ELSE IF ~IsQuoted(b) THEN [time |-> t, err |-> TRUE]
    ELSE LET r == Parse(RFC3339, Unquoted(b)) IN [time |-> r.time, err |-> ~r.ok]

\* Date.MarshalJSON: date.time.MarshalJSON(), the method of the time.Time
DateMarshalJSON(d) == StdMarshalJSON(d.time)

\* Date.UnmarshalJSON: date.time.UnmarshalJSON(b), the method of the time.Time
DateUnmarshalJSON(d, b) ==
    LET r == StdUnmarshalJSON(d.time, b) IN [t |-> [d EXCEPT !.time = r.time], err |-> r.err, by |-> 0]

NoBytes == <<"none">>

NoCall == [op |-> "none", err |-> FALSE, by |-> 0, n |-> 0]

TimeIdle ==
    /\ formats = DefaultFormats
    /\ registered = <<>>
    /\ tm = NewTime(ZeroTime)
    /\ isDate = FALSE
    /\ held = ZeroTime
    /\ input = NoBytes
    /\ output = NoBytes
    /\ last = NoCall

NotFormatted == [called |-> FALSE, panic |-> FALSE, s |-> <<>>]

FormatIdle ==
    /\ fval = StringValue(<<>>)
    /\ fout = NotFormatted

NoServiceCall == [called |-> FALSE, service |-> "none", panic |-> FALSE]

ServicesIdle ==
    /\ handles = NewClient(<<>>).handles
    /\ svcCall = NoServiceCall

MoreIdle == TimeIdle /\ FormatIdle /\ ServicesIdle

DataIdle == HashIdle /\ OptionsIdle /\ EnvelopeIdle /\ ErrorsIdle /\ MoreIdle

RetryIdle ==
    /\ rpc = "off"
    /\ attempt = 0
    /\ ctxErr = FALSE
    /\ resp = [status |-> 0, err |-> FALSE, body |-> "none"]
    /\ prev = 0
    /\ decision = [cancelled |-> FALSE, shouldRetry |-> FALSE, checkErr |-> "none"]
    /\ retries = 0
    /\ outcome = "none"

Init ==
    /\ \E s \in InitialSessions :
        /\ token = s.token
        /\ tokenExpiresAt = s.tokenExpiresAt
    /\ tokenMuR = {}
    /\ tokenMuW = 0
    /\ \E cr \in Credentials :
        /\ username = cr[1]
        /\ password = cr[2]
    /\ now = 1
    /\ calls = 0
    /\ pc = [p \in Procs |-> "idle"]
    /\ lresp = [p \in Procs |-> NoResponse]
    /\ expiry = [p \in Procs |-> 0]
    /\ nLogin = [p \in Procs |-> 0]
    /\ nWrite = [p \in Procs |-> 0]
    /\ sawValid = [p \in Procs |-> FALSE]
    /\ authHeader = [p \in Procs |-> NoHeader]
    /\ result = [p \in Procs |-> "none"]
    /\ opts = <<>>
    /\ disableRetries = NewClient(<<>>).disableRetries
    /\ client = NewClient(<<>>).client
    /\ RetryIdle
    /\ DataIdle

\* ------------------------------------------------------------- Client.Do
\* Steps that touch only the goroutine's locals are folded into the step
\* that precedes them: the test of line 297 and the sending of the request
\* follow the read of the session in the same action.

\* getToken: c.tokenMu.RLock(), on behalf of Do line 295 (the call starts
\* here) or of Do line 305
RLock(p) ==
    /\ pc[p] \in {"idle", "gt2_rlock"}
    /\ pc[p] = "idle" => calls < MaxCalls
    /\ tokenMuW = 0
    /\ tokenMuR' = tokenMuR \cup {p}
    /\ calls' = IF pc[p] = "idle" THEN calls + 1 ELSE calls
    /\ pc' = [pc EXCEPT ![p] = IF pc[p] = "idle" THEN "gt1_read" ELSE "gt2_read"]
    /\ UNCHANGED <<token, tokenExpiresAt, tokenMuW, username, password, now>>
    /\ UNCHANGED <<lresp, expiry, nLogin, nWrite, sawValid, authHeader, result>>
    /\ UNCHANGED <<cfgVars, retryVars, dataVars>>

\* NeedsAuth without the IsZero test
NeedsAuth_NoZeroTest(t, e, n) == t = EmptyToken \/ n > e

\* token == "" || (!expiry.IsZero() && time.Now().After(expiry))
NeedsAuth(t, e, n) == t = EmptyToken \/ (e # 0 /\ n > e)

\* NoCredentials testing the password for being set
NoCredentials_WrongTest == ~username /\ password

\* c.username == "" && c.password == ""
NoCredentials == ~username /\ ~password

\* Do lines 308-317: add the Authorization header, hand the request to
\* doRequest and return what doRequest returns
Send(p, t) ==
    /\ authHeader' = [authHeader EXCEPT ![p] = t]
    /\ result' = [result EXCEPT ![p] = "doRequest"]
    /\ pc' = [pc EXCEPT ![p] = "done"]

\* Do lines 295-317 up to the call of Login: token, expiry := c.getToken()
\* (the read and RUnlock), then the decision whether to authenticate first
Do(p) ==
    /\ pc[p] = "gt1_read"
    /\ tokenMuR' = tokenMuR \ {p}
    /\ sawValid' = [sawValid EXCEPT ![p] = token # EmptyToken /\ (tokenExpiresAt = 0 \/ now <= tokenExpiresAt)]
    /\ IF NeedsAuth(token, tokenExpiresAt, now)
       THEN /\ IF NoCredentials
               THEN /\ pc' = [pc EXCEPT ![p] = "done"]
                    /\ result' = [result EXCEPT ![p] = "token expired"]
               ELSE /\ pc' = [pc EXCEPT ![p] = "login"]
                    /\ UNCHANGED result
            /\ UNCHANGED authHeader
       ELSE Send(p, token)
    /\ UNCHANGED <<token, tokenExpiresAt, tokenMuW, username, password, now, calls>>
    /\ UNCHANGED <<lresp, expiry, nLogin, nWrite>>
    /\ UNCHANGED <<cfgVars, retryVars, dataVars>>

\* what c.Auth.GetAccessToken can come back with for goroutine p: a transport
\* or context error, or a response whose body does not decode, or one of some
\* status whose body decodes, without a token or with a freshly issued one
LoginResponses(p) ==
    [err : {"transport"}, status : {0}, decoded : {FALSE}, token : {EmptyToken}]
    \cup [err : {"none"}, status : {StatusOK}, decoded : {FALSE}, token : {EmptyToken}]
    \cup [err : {"none"}, status : {StatusInternalServerError}, decoded : {TRUE}, token : {[id |-> p, exp |-> 0]}]
    \cup [err : {"none"}, status : {StatusOK}, decoded : {TRUE},
          token : {EmptyToken, [id |-> p, exp |-> 0], [id |-> p, exp |-> now + TokenTTL]}]

\* LoginOK without the status test
LoginOK_NoStatusTest(r) == r.err = "none" /\ r.decoded

\* Login lines 175-182: GetAccessToken failed (doRequest error or undecodable
\* body) or the status is not 200
LoginOK(r) == r.err = "none" /\ r.decoded /\ r.status = StatusOK

\* the values the unlocked read of c.token at Login line 184 can produce:
\* the stored token, or, while another goroutine is inside setToken, also the
\* token being stored or a torn mix of both
RacyToken == IF tokenMuW = 0 THEN {token} ELSE {token, lresp[tokenMuW].token, TornToken}

\* Login line 184-188: the expiry of t, the default on error
LoginExpiry(t) == IF getTokenExpiry(t).err THEN now + defaultTokenExpiry ELSE getTokenExpiry(t).at

\* Login lines 170-188: POST user/token, look at the answer, work out the expiry
Login(p) ==
    /\ pc[p] = "login"
    /\ nLogin' = [nLogin EXCEPT ![p] = @ + 1]
    /\ \E r \in LoginResponses(p) :
        /\ lresp' = [lresp EXCEPT ![p] = r]
        /\ IF LoginOK(r)
           THEN /\ \E t \in RacyToken : expiry' = [expiry EXCEPT ![p] = LoginExpiry(t)]
                /\ pc' = [pc EXCEPT ![p] = "st_lock"]
                /\ UNCHANGED result
           ELSE /\ pc' = [pc EXCEPT ![p] = "done"]
                /\ result' = [result EXCEPT ![p] = "failed to re-authenticate"]
                /\ UNCHANGED expiry
    /\ UNCHANGED sessVars
    /\ UNCHANGED <<nWrite, sawValid, authHeader>>
    /\ UNCHANGED <<cfgVars, retryVars, dataVars>>

\* setToken: c.tokenMu.Lock()
Lock(p) ==
    /\ pc[p] = "st_lock"
    /\ tokenMuW = 0
    /\ tokenMuR = {}
    /\ tokenMuW' = p
    /\ pc' = [pc EXCEPT ![p] = "st_write"]
    /\ UNCHANGED <<token, tokenExpiresAt, tokenMuR, username, password, now, calls>>
    /\ UNCHANGED <<lresp, expiry, nLogin, nWrite, sawValid, authHeader, result>>
    /\ UNCHANGED <<cfgVars, retryVars, dataVars>>

\* setToken storing the expiry only
setToken_ExpiryOnly(p) ==
    /\ pc[p] = "st_write"
    /\ tokenExpiresAt' = expiry[p]
    /\ tokenMuW' = 0
    /\ nWrite' = [nWrite EXCEPT ![p] = @ + 1]
    /\ expiry' = [expiry EXCEPT ![p] = 0]
    /\ pc' = [pc EXCEPT ![p] = "gt2_rlock"]
    /\ UNCHANGED <<token, tokenMuR, username, password, now, calls>>
    /\ UNCHANGED <<lresp, nLogin, sawValid, authHeader, result>>
    /\ UNCHANGED <<cfgVars, retryVars, dataVars>>

\* setToken: c.token, c.tokenExpiresAt = token, expiresAt, then Unlock
setToken(p) ==
    /\ pc[p] = "st_write"
    /\ token' = lresp[p].token
    /\ tokenExpiresAt' = expiry[p]
    /\ tokenMuW' = 0
    /\ nWrite' = [nWrite EXCEPT ![p] = @ + 1]
    /\ expiry' = [expiry EXCEPT ![p] = 0]
    /\ pc' = [pc EXCEPT ![p] = "gt2_rlock"]
    /\ UNCHANGED <<tokenMuR, username, password, now, calls>>
    /\ UNCHANGED <<lresp, nLogin, sawValid, authHeader, result>>
    /\ UNCHANGED <<cfgVars, retryVars, dataVars>>

\* DoAfterLogin authenticating again as long as the session is not valid
DoAfterLogin_Loop(p) ==
    /\ pc[p] = "gt2_read"
    /\ tokenMuR' = tokenMuR \ {p}
    /\ IF NeedsAuth(token, tokenExpiresAt, now)
       THEN /\ pc' = [pc EXCEPT ![p] = "login"]
            /\ UNCHANGED <<authHeader, result>>
       ELSE Send(p, token)
    /\ UNCHANGED <<token, tokenExpiresAt, tokenMuW, username, password, now, calls>>
    /\ UNCHANGED <<lresp, expiry, nLogin, nWrite, sawValid>>
    /\ UNCHANGED <<cfgVars, retryVars, dataVars>>

\* Do lines 305-317: token, _ = c.getToken() (the read and RUnlock), then
\* the request is sent with that token
DoAfterLogin(p) ==
    /\ pc[p] = "gt2_read"
    /\ tokenMuR' = tokenMuR \ {p}
    /\ Send(p, token)
    /\ UNCHANGED <<token, tokenExpiresAt, tokenMuW, username, password, now, calls>>
    /\ UNCHANGED <<lresp, expiry, nLogin, nWrite, sawValid>>
    /\ UNCHANGED <<cfgVars, retryVars, dataVars>>

\* an hour passes
Tick ==
    /\ now < MaxTime
    /\ now' = now + 1
    /\ UNCHANGED <<token, tokenExpiresAt, tokenMuR, tokenMuW, username, password, calls>>
    /\ UNCHANGED <<procVars, cfgVars, retryVars, dataVars>>

Next ==
    \/ \E p \in Procs : RLock(p)
    \/ \E p \in Procs : Do(p)
    \/ \E p \in Procs : Login(p)
    \/ \E p \in Procs : Lock(p)
    \/ \E p \in Procs : setToken(p)
    \/ \E p \in Procs : DoAfterLogin(p)
    \/ Tick

Spec == Init /\ [][Next]_vars

\* --------------------------------------------- c.client.Do and its retries
\* retryHTTPCheck retrying client errors too
retryHTTPCheck_From400(dr, cancelled, r) ==
    IF cancelled THEN [shouldRetry |-> FALSE, checkErr |-> "context"]
    ELSE IF r.err THEN [shouldRetry |-> FALSE, checkErr |-> "transport"]
    ELSE IF ~dr /\ r.status >= 400
         THEN [shouldRetry |-> TRUE, checkErr |-> "none"]
    ELSE [shouldRetry |-> FALSE, checkErr |-> "none"]

\* retryHTTPCheck without the test of ctx.Err()
retryHTTPCheck_NoCtxTest(dr, cancelled, r) ==
    IF r.err THEN [shouldRetry |-> FALSE, checkErr |-> "transport"]
    ELSE IF ~dr /\ (r.status = StatusTooManyRequests \/ r.status >= StatusInternalServerError)
         THEN [shouldRetry |-> TRUE, checkErr |-> "none"]
    ELSE [shouldRetry |-> FALSE, checkErr |-> "none"]

\* retryHTTPCheck(ctx, resp, err), with dr = c.disableRetries, cancelled =
\* ctx.Err() != nil and r the attempt's status and transport error
retryHTTPCheck(dr, cancelled, r) ==
    IF cancelled THEN [shouldRetry |-> FALSE, checkErr |-> "context"]
    ELSE IF r.err THEN [shouldRetry |-> FALSE, checkErr |-> "transport"]
    ELSE IF ~dr /\ (r.status = StatusTooManyRequests \/ r.status >= StatusInternalServerError)
         THEN [shouldRetry |-> TRUE, checkErr |-> "none"]
    ELSE [shouldRetry |-> FALSE, checkErr |-> "none"]

\* the verdicts c.client.CheckRetry can give: the client's own predicate, or
\* a predicate supplied by the caller, which may answer anything
CheckRetry(r) ==
    IF client.CheckRetry = "retryHTTPCheck"
    THEN {retryHTTPCheck(disableRetries, ctxErr, r)}
    ELSE [shouldRetry : BOOLEAN, checkErr : {"none"}]

Statuses == {StatusOK, 400, StatusTooManyRequests, StatusInternalServerError}

\* what one round trip can produce: a response with a body that is a valid
\* envelope or not, or a transport error; only the latter once the context
\* is cancelled
RoundTrips ==
    IF ctxErr THEN {[status |-> 0, err |-> TRUE, body |-> "none"]}
    ELSE [status : Statuses, err : {FALSE}, body : {"envelope", "garbage"}]
         \cup {[status |-> 0, err |-> TRUE, body |-> "none"]}

InitRetry ==
    /\ token = EmptyToken
    /\ tokenExpiresAt = 0
    /\ tokenMuR = {}
    /\ tokenMuW = 0
    /\ username = TRUE
    /\ password = TRUE
    /\ now = 1
    /\ calls = 0
    /\ pc = [p \in Procs |-> "idle"]
    /\ lresp = [p \in Procs |-> NoResponse]
    /\ expiry = [p \in Procs |-> 0]
    /\ nLogin = [p \in Procs |-> 0]
    /\ nWrite = [p \in Procs |-> 0]
    /\ sawValid = [p \in Procs |-> FALSE]
    /\ authHeader = [p \in Procs |-> NoHeader]
    /\ result = [p \in Procs |-> "none"]
    /\ opts \in OptionLists
    /\ disableRetries = NewClient(opts).disableRetries
    /\ client = NewClient(opts).client
    /\ rpc = "attempt"
    /\ attempt = 0
    /\ ctxErr = FALSE
    /\ resp = [status |-> 0, err |-> FALSE, body |-> "none"]
    /\ prev = 0
    /\ decision = [cancelled |-> FALSE, shouldRetry |-> FALSE, checkErr |-> "none"]
    /\ retries = 0
    /\ outcome = "none"
    /\ DataIdle

\* the caller cancels the request's context
Cancel ==
    /\ rpc # "returned"
    /\ ~ctxErr
    /\ ctxErr' = TRUE
    /\ UNCHANGED <<rpc, attempt, resp, prev, decision, retries, outcome>>
    /\ UNCHANGED <<sessVars, procVars, cfgVars, dataVars>>

\* c.client.Do: one round trip, resp, doErr = c.HTTPClient.Do(req)
Attempt ==
    /\ rpc = "attempt"
    /\ attempt' = attempt + 1
    /\ \E r \in RoundTrips : resp' = r
    /\ prev' = resp.status
    /\ rpc' = "check"
    /\ UNCHANGED <<ctxErr, decision, retries, outcome>>
    /\ UNCHANGED <<sessVars, procVars, cfgVars, dataVars>>

\* c.client.Do: shouldRetry, checkErr = c.CheckRetry(ctx, resp, doErr); leave
\* the loop if it says no or if RetryMax - i <= 0, i counting from 0
Check ==
    /\ rpc = "check"
    /\ \E d \in CheckRetry(resp) :
        /\ decision' = [cancelled |-> ctxErr, shouldRetry |-> d.shouldRetry, checkErr |-> d.checkErr]
        /\ rpc' = IF d.shouldRetry /\ client.RetryMax - (attempt - 1) > 0 THEN "wait" ELSE "finish"
    /\ UNCHANGED <<attempt, ctxErr, resp, prev, retries, outcome>>
    /\ UNCHANGED <<sessVars, procVars, cfgVars, dataVars>>

\* c.client.Do: the backoff wait ends, by the timer (next attempt) or by the
\* context being done (return nil, ctx.Err())
Wait ==
    /\ rpc = "wait"
    /\ IF ctxErr
       THEN /\ rpc' = "returned"
            /\ outcome' = "context error"
            /\ UNCHANGED retries
       ELSE /\ rpc' = "attempt"
            /\ retries' = retries + 1
            /\ UNCHANGED outcome
    /\ UNCHANGED <<attempt, ctxErr, resp, prev, decision>>
    /\ UNCHANGED <<sessVars, procVars, cfgVars, dataVars>>

\* what c.client.Do returns once the loop is left: the response as it is when
\* there is no error and no retry was asked for; otherwise checkErr or doErr
\* go through the error handler, which passes response and error on
\* (PassthroughErrorHandler) or, when nil, gives up with an error
ClientDo ==
    IF ~resp.err /\ decision.checkErr = "none" /\ ~decision.shouldRetry THEN "response"
    ELSE IF client.ErrorHandler = "passthrough"
         THEN IF decision.checkErr = "context" THEN "context error"
              ELSE IF resp.err THEN "transport error"
              ELSE "response"
    ELSE "giving up"

\* doRequest lines 321-354: an error of c.client.Do is returned, a response
\* is decoded
doRequest ==
    /\ rpc = "finish"
    /\ rpc' = "returned"
    /\ outcome' = IF ClientDo # "response" THEN ClientDo
                  ELSE IF resp.body = "envelope" THEN "decoded" ELSE "decode error"
    /\ UNCHANGED <<attempt, ctxErr, resp, prev, decision, retries>>
    /\ UNCHANGED <<sessVars, procVars, cfgVars, dataVars>>

NextRetry ==
    \/ Cancel
    \/ Attempt
    \/ Check
    \/ Wait
    \/ doRequest

SpecRetry == InitRetry /\ [][NextRetry]_vars

\* ------------------------------------------------------ the secure hash
\* the client as NewClient leaves it, no call under way
SessionIdle ==
    /\ token = EmptyToken
    /\ tokenExpiresAt = 0
    /\ tokenMuR = {}
    /\ tokenMuW = 0
    /\ username = TRUE
    /\ password = TRUE
    /\ now = 1
    /\ calls = 0
    /\ pc = [p \in Procs |-> "idle"]
    /\ lresp = [p \in Procs |-> NoResponse]
    /\ expiry = [p \in Procs |-> 0]
    /\ nLogin = [p \in Procs |-> 0]
    /\ nWrite = [p \in Procs |-> 0]
    /\ sawValid = [p \in Procs |-> FALSE]
    /\ authHeader = [p \in Procs |-> NoHeader]
    /\ result = [p \in Procs |-> "none"]

ClientIdle ==
    /\ SessionIdle
    /\ opts = <<>>
    /\ disableRetries = NewClient(<<>>).disableRetries
    /\ client = NewClient(<<>>).client
    /\ RetryIdle

InitHash ==
    /\ ClientIdle
    /\ MoreIdle
    /\ \E h \in NestedStructs : \E fs \in Requests(h) : req = StructValue(fs)
    /\ labKey \in Keys
    /\ digest = NoDigest
    /\ OptionsIdle
    /\ EnvelopeIdle
    /\ ErrorsIdle

\* generateSecureHashFrom(req, labKey) is called
Hash ==
    /\ digest = NoDigest
    /\ digest' = generateSecureHashFrom(req, labKey)
    /\ UNCHANGED <<req, labKey, optVars, envVars, errVars>>
    /\ UNCHANGED <<sessVars, procVars, cfgVars, retryVars, moreVars>>

NextHash == Hash

SpecHash == InitHash /\ [][NextHash]_vars

\* ------------------------------------------- NewRequest and the secure hash
\* The options are a struct with the fields req.fields followed by the
\* embedded secureHashOption, whose SecureHash field is secureHash.

\* the embedded field secureHashOption of an options struct
secureHashOption == Field([Plain EXCEPT !.anonymous = TRUE, !.json = ""], StructValue(<<>>))

\* hex.EncodeToString of a digest: 128 characters, never the empty string
Hex(d) == <<"sha512">> \o d.sha512

\* the hash a caller supplies with SetHash
Fixture == <<"fixture">>

\* ensureSecureHash setting the hash whether or not one is present
ensureSecureHash_Always(ok, h, fs, key) ==
    IF ok THEN Hex(generateSecureHashFrom(StructValue(fs \o <<secureHashOption>>), key)) ELSE h

\* ensureSecureHash: the SecureHash of the options after the call, h before
\* it; ok is the outcome of the type assertion opt.(secureHasher)
ensureSecureHash(ok, h, fs, key) ==
    IF ok /\ h = <<>> THEN Hex(generateSecureHashFrom(StructValue(fs \o <<secureHashOption>>), key)) ELSE h

\* the options structs: exported fields with json tags, of scalar type
OptionFields == {Field(Plain, v) : v \in Scalars}

RequestOptions == UNION {[1..k -> OptionFields] : k \in 0..MaxOptionFields}

\* the clients the requests are built with: NewClient without options or
\* with WithUserAgent
AgentOptionLists == {<<>>} \cup {<<o>> : o \in [name : {"WithUserAgent"}, rc : {DefaultClient}, ua : UserAgents]}

\* opts is of a type that embeds secureHashOption (hasher), or of a type with
\* a SecureHash field of its own, as AccountEnquiryThirdPartyOptions
InitOptions ==
    /\ ClientIdle
    /\ MoreIdle
    /\ \E fs \in RequestOptions : req = StructValue(fs)
    /\ labKey \in Keys
    /\ digest = NoDigest
    /\ secureHash = <<>>
    /\ body = NoBody
    /\ nreq = 0
    /\ \E os \in AgentOptionLists : UserAgent = NewClient(os).UserAgent
    /\ hasher \in BOOLEAN
    /\ uaHeader = <<>>
    /\ EnvelopeIdle
    /\ ErrorsIdle

\* the caller sets a hash of their own: opt.SetHash(Fixture), or
\* opt.SecureHash = Fixture
SetHash ==
    /\ secureHash' = Fixture
    /\ UNCHANGED <<req, labKey, digest, body, nreq, UserAgent, hasher, uaHeader, envVars, errVars>>
    /\ UNCHANGED <<sessVars, procVars, cfgVars, retryVars, moreVars>>

\* the caller assigns the i-th field of the options
SetField(i, v) ==
    /\ i \in 1..Len(req.fields)
    /\ req.fields[i].value # v
    /\ req' = [req EXCEPT !.fields[i].value = v]
    /\ UNCHANGED <<labKey, digest, optVars, envVars, errVars>>
    /\ UNCHANGED <<sessVars, procVars, cfgVars, retryVars, moreVars>>

\* NewRequest: the User-Agent header (lines 233-235), then
\* c.ensureSecureHash(opts) and json.Marshal(opts) (lines 241-247)
NewRequest ==
    /\ nreq < MaxRequests
    /\ nreq' = nreq + 1
    /\ uaHeader' = IF UserAgent # "" THEN <<userAgent>> ELSE <<>>
    /\ secureHash' = ensureSecureHash(hasher, secureHash, req.fields, labKey)
    /\ body' = [fields |-> req.fields, secureHash |-> secureHash']
    /\ UNCHANGED <<req, labKey, digest, UserAgent, hasher, envVars, errVars>>
    /\ UNCHANGED <<sessVars, procVars, cfgVars, retryVars, moreVars>>

NextOptions ==
    \/ SetHash
    \/ \E i \in 1..MaxOptionFields : \E v \in Scalars : SetField(i, v)
    \/ NewRequest

SpecOptions == InitOptions /\ [][NextOptions]_vars

\* --------------------------------------------------- the envelope codec
\* json.Decoder.Decode(&respData): the errors field.  A JSON list, the empty
\* one too, gives a slice that is not nil; null and no field at all leave it nil
DecodeErrors(e) == IF e.present = "list" THEN Slice(e.list) ELSE NilSlice

\* json.Decoder.Decode(&respData): the envelope decodes unless the body is
\* no JSON or Time.UnmarshalJSON rejects the timestamp
EnvelopeDecodes(b) == b.json /\ b.timestamp # "invalid"

\* unmarshalResponse: nothing to do for a content that is nil or "", else
\* json.Unmarshal into the target; null leaves the target as it is
unmarshalResponse(content) ==
    CASE content \in {"absent", "emptystring"} -> [v |-> "zero", err |-> NilError]
      [] content = "null" -> [v |-> "zero", err |-> NilError]
      [] content = "object" -> [v |-> "decoded", err |-> NilError]
      [] OTHER -> [v |-> "zero", err |-> JSONError]

\* the metadata of the envelope b
WithMetadata(r, b) ==
    [r EXCEPT !.Code = b.code, !.Message = b.message,
              !.Time = IF b.timestamp = "valid" THEN "parsed" ELSE "zero"]

\* decodeBody setting the metadata on success only
decodeBody_LateMetadata(b, t) ==
    IF t = "nil" THEN [response |-> newResponse, err |-> NilError, v |-> "nil"]
    ELSE IF t = "BearerToken"
         THEN [response |-> newResponse, err |-> IF b.json THEN NilError ELSE JSONError,
               v |-> IF b.json THEN "decoded" ELSE "zero"]
    ELSE IF ~EnvelopeDecodes(b) THEN [response |-> newResponse, err |-> JSONError, v |-> "zero"]
    ELSE IF ~DecodeErrors(b.errors).nil
         THEN [response |-> newResponse,
               err |-> [kind |-> "ResponseError", agg |-> DecodeErrors(b.errors)], v |-> "zero"]
    ELSE [response |-> IF unmarshalResponse(b.content).err = NilError THEN WithMetadata(newResponse, b) ELSE newResponse,
          err |-> unmarshalResponse(b.content).err, v |-> unmarshalResponse(b.content).v]

\* decodeBody decoding the content before it looks at the errors
decodeBody_ContentFirst(b, t) ==
    IF t = "nil" THEN [response |-> newResponse, err |-> NilError, v |-> "nil"]
    ELSE IF t = "BearerToken"
         THEN [response |-> newResponse, err |-> IF b.json THEN NilError ELSE JSONError,
               v |-> IF b.json THEN "decoded" ELSE "zero"]
    ELSE IF ~EnvelopeDecodes(b) THEN [response |-> newResponse, err |-> JSONError, v |-> "zero"]
    ELSE IF ~DecodeErrors(b.errors).nil
         THEN [response |-> WithMetadata(newResponse, b),
               err |-> [kind |-> "ResponseError", agg |-> DecodeErrors(b.errors)],
               v |-> unmarshalResponse(b.content).v]
    ELSE [response |-> WithMetadata(newResponse, b),
          err |-> unmarshalResponse(b.content).err, v |-> unmarshalResponse(b.content).v]

\* doRequest lines 326-354, a response with body b having been obtained and
\* v being nil, a *BearerToken or a pointer to a result of another type
decodeBody(b, t) ==
    IF t = "nil" THEN [response |-> newResponse, err |-> NilError, v |-> "nil"]
    ELSE IF t = "BearerToken"
         THEN [response |-> newResponse, err |-> IF b.json THEN NilError ELSE JSONError,
               v |-> IF b.json THEN "decoded" ELSE "zero"]
    ELSE IF ~EnvelopeDecodes(b) THEN [response |-> newResponse, err |-> JSONError, v |-> "zero"]
    ELSE IF ~DecodeErrors(b.errors).nil
         THEN [response |-> WithMetadata(newResponse, b),
               err |-> [kind |-> "ResponseError", agg |-> DecodeErrors(b.errors)], v |-> "zero"]
    ELSE [response |-> WithMetadata(newResponse, b),
          err |-> unmarshalResponse(b.content).err, v |-> unmarshalResponse(b.content).v]

\* doRequest lines 328-334: the two deferred functions that drain and close
\* resp.Body are set up inside the test v != nil; they run when doRequest
\* returns, on every path
bodyClosed(t) == t # "nil"

InitEnvelope ==
    /\ ClientIdle
    /\ MoreIdle
    /\ HashIdle
    /\ OptionsIdle
    /\ httpBody \in Bodies
    /\ target \in {"nil", "BearerToken", "T"}
    /\ ret = NoReturn
    /\ ErrorsIdle

\* DoRequest[T]: Do(req, &respT); the result is nil when Do returns an error
DoRequest ==
    /\ ~ret.called
    /\ target = "T"
    /\ LET d == decodeBody(httpBody, target) IN
        ret' = [called |-> TRUE, result |-> IF d.err # NilError THEN "nil" ELSE d.v, v |-> d.v,
                response |-> d.response, err |-> d.err, closed |-> bodyClosed(target)]
    /\ UNCHANGED <<httpBody, target, hashVars, optVars, errVars>>
    /\ UNCHANGED <<sessVars, procVars, cfgVars, retryVars, moreVars>>

\* Do(req, v) called with a v of the caller: nil, or a *BearerToken as in
\* GetAccessToken; result is what has become of *v
DoDirect ==
    /\ ~ret.called
    /\ target # "T"
    /\ LET d == decodeBody(httpBody, target) IN
        ret' = [called |-> TRUE, result |-> d.v, v |-> d.v, response |-> d.response, err |-> d.err,
                closed |-> bodyClosed(target)]
    /\ UNCHANGED <<httpBody, target, hashVars, optVars, errVars>>
    /\ UNCHANGED <<sessVars, procVars, cfgVars, retryVars, moreVars>>

NextEnvelope == DoRequest \/ DoDirect

SpecEnvelope == InitEnvelope /\ [][NextEnvelope]_vars

\* ------------------------------------------------------ the error aggregate
\* a ResponseError as a caller makes it: var e ResponseError (the zero
\* value, nil) or ResponseError{} (empty, not nil)
InitErrors ==
    /\ ClientIdle
    /\ MoreIdle
    /\ HashIdle
    /\ OptionsIdle
    /\ EnvelopeIdle
    /\ agg \in {NilSlice, Slice(<<>>)}
    /\ added = <<>>
    /\ marshalled = NotMarshalled

\* e.Add(m)
AddCall(m) ==
    /\ Len(added) < MaxAdds
    /\ agg' = Add(agg, m)
    /\ added' = Append(added, m)
    /\ marshalled' = NotMarshalled
    /\ UNCHANGED <<hashVars, optVars, envVars>>
    /\ UNCHANGED <<sessVars, procVars, cfgVars, retryVars, moreVars>>

\* json.Marshal(e)
Marshal ==
    /\ marshalled = NotMarshalled
    /\ marshalled' = jsonMarshal(agg)
    /\ UNCHANGED <<agg, added, hashVars, optVars, envVars>>
    /\ UNCHANGED <<sessVars, procVars, cfgVars, retryVars, moreVars>>

NextErrors ==
    \/ \E m \in Messages \cup {<<>>} : AddCall(m)
    \/ Marshal

SpecErrors == InitErrors /\ [][NextErrors]_vars

\* -------------------------------------------------- Time and Date as JSON
InitTime ==
    /\ ClientIdle
    /\ HashIdle
    /\ OptionsIdle
    /\ EnvelopeIdle
    /\ ErrorsIdle
    /\ FormatIdle
    /\ ServicesIdle
    /\ formats = DefaultFormats
    /\ registered = <<>>
    /\ \E v \in Instants :
        \/ isDate = FALSE /\ tm \in {NewTime(v)} \cup {NewTimeWithLayout(v, l) : l \in AttachedLayouts}
        \/ isDate = TRUE /\ tm = NewDate(v)
    /\ held = ZeroTime
    /\ input = NoBytes
    /\ output = NoBytes
    /\ last = NoCall

\* AddTimeFormat putting the layout in front of the list
AddTimeFormat_Prepend(l) ==
    /\ Len(registered) < MaxRegistered
    /\ formats' = <<l>> \o formats
    /\ registered' = Append(registered, l)
    /\ UNCHANGED <<tm, isDate, held, input, output, last>>
    /\ UNCHANGED <<hashVars, optVars, envVars, errVars>>
    /\ UNCHANGED <<sessVars, procVars, cfgVars, retryVars, fmtVars, svcVars>>

\* AddTimeFormat(l): formats = append(formats, l)
AddTimeFormat(l) ==
    /\ Len(registered) < MaxRegistered
    /\ formats' = Append(formats, l)
    /\ registered' = Append(registered, l)
    /\ UNCHANGED <<tm, isDate, held, input, output, last>>
    /\ UNCHANGED <<hashVars, optVars, envVars, errVars>>
    /\ UNCHANGED <<sessVars, procVars, cfgVars, retryVars, fmtVars, svcVars>>

\* json.Unmarshal(b, &t) for a Time t: Time.UnmarshalJSON
TimeUnmarshal(b) ==
    /\ ~isDate
    /\ LET r == TimeUnmarshalJSON(formats, tm, b) IN
        /\ tm' = r.t
        /\ last' = [op |-> "Time.UnmarshalJSON", err |-> r.err, by |-> r.by, n |-> Len(formats)]
    /\ held' = tm.time
    /\ input' = b
    /\ output' = NoBytes
    /\ UNCHANGED <<formats, registered, isDate>>
    /\ UNCHANGED <<hashVars, optVars, envVars, errVars>>
    /\ UNCHANGED <<sessVars, procVars, cfgVars, retryVars, fmtVars, svcVars>>

\* json.Marshal(t) for a Time t: Time.MarshalJSON
TimeMarshal ==
    /\ ~isDate
    /\ output' = TimeMarshalJSON(tm)
    /\ last' = [op |-> "Time.MarshalJSON", err |-> FALSE, by |-> 0, n |-> Len(formats)]
    /\ input' = NoBytes
    /\ UNCHANGED <<formats, registered, tm, isDate, held>>
    /\ UNCHANGED <<hashVars, optVars, envVars, errVars>>
    /\ UNCHANGED <<sessVars, procVars, cfgVars, retryVars, fmtVars, svcVars>>

\* json.Unmarshal(b, &d) for a Date d: Date.UnmarshalJSON
DateUnmarshal(b) ==
    /\ isDate
    /\ LET r == DateUnmarshalJSON(tm, b) IN
        /\ tm' = r.t
        /\ last' = [op |-> "Date.UnmarshalJSON", err |-> r.err, by |-> r.by, n |-> Len(formats)]
    /\ held' = tm.time
    /\ input' = b
    /\ output' = NoBytes
    /\ UNCHANGED <<formats, registered, isDate>>
    /\ UNCHANGED <<hashVars, optVars, envVars, errVars>>
    /\ UNCHANGED <<sessVars, procVars, cfgVars, retryVars, fmtVars, svcVars>>

\* json.Marshal(d) for a Date d: Date.MarshalJSON
DateMarshal ==
    /\ isDate
    /\ output' = DateMarshalJSON(tm)
    /\ last' = [op |-> "Date.MarshalJSON", err |-> FALSE, by |-> 0, n |-> Len(formats)]
    /\ input' = NoBytes
    /\ UNCHANGED <<formats, registered, tm, isDate, held>>
    /\ UNCHANGED <<hashVars, optVars, envVars, errVars>>
    /\ UNCHANGED <<sessVars, procVars, cfgVars, retryVars, fmtVars, svcVars>>

NextTime ==
    \/ \E l \in ExtraLayouts : AddTimeFormat(l)
    \/ \E b \in Texts : TimeUnmarshal(b)
    \/ TimeMarshal
    \/ \E b \in Texts : DateUnmarshal(b)
    \/ DateMarshal

SpecTime == InitTime /\ [][NextTime]_vars

\* ------------------------------------------------------------- formatToStr
\* the values handed to formatToStr: one or more of every type of the
\* switch, a Date (a fmt.Stringer through Time.String), a nil pointer to a
\* Time, and values of types the switch does not have
FormatValues ==
    {StringValue(t) : t \in {<<>>, <<"a">>, <<"a", "b">>}}
    \cup {TypedValue(ty, <<>>, n) : ty \in SignedTypes \cup QuarterTypes, n \in (0 - MaxNumber)..MaxNumber}
    \cup {TypedValue(ty, <<>>, n) : ty \in UnsignedTypes, n \in 0..MaxNumber}
    \cup {TypedValue("bool", <<>>, n) : n \in {0, 1}}
    \cup {TypedValue(ty, t, 0) : ty \in {"json.Number", "[]byte"}, t \in {<<>>, <<"1">>, <<"1", ".", "5", "0">>}}
    \cup {TypedValue("fmt.Stringer", TimeString(NewDate(v)), 0) : v \in Instants}
    \cup {NilStringer, TypedValue("nil", <<>>, 0), TypedValue("[]string", <<"a">>, 0), StructValue(<<>>)}

InitFormat ==
    /\ ClientIdle
    /\ HashIdle
    /\ OptionsIdle
    /\ EnvelopeIdle
    /\ ErrorsIdle
    /\ TimeIdle
    /\ ServicesIdle
    /\ fval \in FormatValues
    /\ fout = NotFormatted

\* formatToStr(fval) is called
FormatCall ==
    /\ ~fout.called
    /\ fout' = IF formatToStrPanics(fval) THEN [called |-> TRUE, panic |-> TRUE, s |-> <<>>]
               ELSE [called |-> TRUE, panic |-> FALSE, s |-> formatToStr(fval)]
    /\ UNCHANGED <<fval, timeVars>>
    /\ UNCHANGED <<hashVars, optVars, envVars, errVars>>
    /\ UNCHANGED <<sessVars, procVars, cfgVars, retryVars, svcVars>>

NextFormat == FormatCall

SpecFormat == InitFormat /\ [][NextFormat]_vars

\* ------------------------------------------------- NewClient and services
\* the lists of options handed to NewClient
ClientOptionLists == UNION {[1..n -> Options \cup MoreOptions] : n \in 0..MaxOpts}

\* c, err := NewClient(username, password, labKey, opts...), err being nil
InitClient ==
    /\ SessionIdle
    /\ RetryIdle
    /\ HashIdle
    /\ OptionsIdle
    /\ EnvelopeIdle
    /\ ErrorsIdle
    /\ TimeIdle
    /\ FormatIdle
    /\ \E os \in ClientOptionLists :
        /\ opts = os
        /\ disableRetries = NewClient(os).disableRetries
        /\ client = NewClient(os).client
        /\ handles = NewClient(os).handles
    /\ svcCall = NoServiceCall

\* a method of the service sv is called, as c.Remittance.ListInstitutions or
\* c.Status.GetTransactionStatus: it reads s.client, which panics when the
\* handle s is nil
ServiceCall(sv) ==
    /\ ~svcCall.called
    /\ svcCall' = [called |-> TRUE, service |-> sv, panic |-> handles[sv] = "nil"]
    /\ UNCHANGED <<handles, timeVars, fmtVars>>
    /\ UNCHANGED <<hashVars, optVars, envVars, errVars>>
    /\ UNCHANGED <<sessVars, procVars, cfgVars, retryVars>>

NextClient == \E sv \in Services : ServiceCall(sv)

SpecClient == InitClient /\ [][NextClient]_vars

\* ================================================================= claims
\* the call of p found no valid session and the client has credentials
Reauthenticating(p) == pc[p] \notin {"idle", "gt1_read"} /\ ~sawValid[p] /\ (username \/ password)

\* the login of p has written its token to the session
LoggedIn(p) == nWrite[p] = 1

\* C1 (as stated): a Do call that finds the token empty or expired, with
\* credentials configured, issues exactly one login, which completes before
\* the original request is sent, and the original request carries the token
\* obtained by that login.
C1_Orig ==
    \A p \in Procs :
        (Reauthenticating(p) /\ pc[p] # "login") =>
            /\ nLogin[p] = 1
            /\ authHeader[p] # NoHeader => LoggedIn(p) /\ authHeader[p] = lresp[p].token

\* C1 (amended): ... and the original request carries the token the session
\* holds when Do reads it again after that login: the token obtained by that
\* login or by the login of a concurrent caller that has stored its token.
C1_Thm ==
    \A p \in Procs :
        (Reauthenticating(p) /\ pc[p] # "login") =>
            /\ nLogin[p] = 1
            /\ authHeader[p] # NoHeader =>
                /\ LoggedIn(p)
                /\ \E q \in Procs : LoggedIn(q) /\ authHeader[p] = lresp[q].token

C1_Witness ==
    \E p \in Procs :
        /\ pc[p] = "done"
        /\ Reauthenticating(p)
        /\ authHeader[p] = lresp[p].token
        /\ authHeader[p].id = p

\* C2: a Do call that finds a non-empty token whose expiry has not passed (or
\* is not set) issues no login, does not write the session and sends the
\* request.
C2_Thm ==
    \A p \in Procs :
        sawValid[p] => nLogin[p] = 0 /\ nWrite[p] = 0 /\ pc[p] = "done" /\ authHeader[p] # NoHeader

C2_Witness == \E p \in Procs : sawValid[p] /\ pc[p] = "done" /\ result[p] = "doRequest" /\ tokenExpiresAt = 0

\* C3 (as stated): the token of the Authorization header of a request sent
\* through Do is never empty.
C3_Orig == \A p \in Procs : authHeader[p] # NoHeader => authHeader[p] # EmptyToken

\* C4: without credentials (user name and password both empty) a Do call that
\* finds no valid session fails with "token expired", issues neither a login
\* nor the original request and does not write the session.
C4_Thm ==
    \A p \in Procs :
        (pc[p] \notin {"idle", "gt1_read"} /\ ~sawValid[p] /\ ~username /\ ~password) =>
            /\ pc[p] = "done"
            /\ result[p] = "token expired"
            /\ nLogin[p] = 0
            /\ nWrite[p] = 0
            /\ authHeader[p] = NoHeader

C4_Witness == \E p \in Procs : pc[p] = "done" /\ result[p] = "token expired" /\ ~username /\ ~password

\* the login of p came back with a transport error, an undecodable body or a
\* status other than 200
LoginFailed(p) == nLogin[p] > 0 /\ (lresp[p].err # "none" \/ ~lresp[p].decoded \/ lresp[p].status # StatusOK)

\* C5: when the re-authentication of a Do call fails, Do returns the error,
\* the original request is not sent and the call has not written the session.
C5_Thm ==
    \A p \in Procs :
        LoginFailed(p) =>
            /\ pc[p] = "done"
            /\ result[p] = "failed to re-authenticate"
            /\ nWrite[p] = 0
            /\ authHeader[p] = NoHeader

C5_Witness ==
    \E p \in Procs : LoginFailed(p) /\ lresp[p].status = StatusInternalServerError /\ lresp[p].decoded /\ pc[p] = "done"

\* C6 (as stated): a goroutine about to read the session holds c.tokenMu in
\* shared mode, one about to write it holds it exclusively.  The reads are
\* those of getToken (gt1_read, gt2_read) and the one inside Login (login).
C6_Orig ==
    \A p \in Procs :
        /\ pc[p] \in {"gt1_read", "gt2_read", "login"} => p \in tokenMuR
        /\ pc[p] = "st_write" => tokenMuW = p

\* C7 (as stated): as long as the expired session has not been replaced, at
\* most 2 of the concurrent callers have issued a login.
C7_Orig == (\A p \in Procs : nWrite[p] = 0) => Cardinality({p \in Procs : nLogin[p] > 0}) <= 2

\* C7 (amended): every Do call issues at most one login, so the callers
\* together issue at most as many logins as there are calls.
C7_Thm ==
    /\ \A p \in Procs : nLogin[p] <= 1
    /\ Cardinality({p \in Procs : nLogin[p] > 0}) <= calls

C7_Witness == (\A p \in Procs : nWrite[p] = 0) /\ Cardinality({p \in Procs : nLogin[p] = 1}) >= 3

\* the client NewClient builds when no retry option is applied
DefaultPolicy == client = DefaultClient /\ ~disableRetries

\* a response with status 429 or >= 500 and no transport error
Retryable(r) == ~r.err /\ (r.status = StatusTooManyRequests \/ r.status >= StatusInternalServerError)

\* C8 (as stated): with the default policy an attempt is retried if and only
\* if it returned 429 or >= 500 without a transport error; 500 then 200 gives
\* one retried call and a decoded result.
C8_Orig ==
    DefaultPolicy =>
        /\ (rpc = "attempt" /\ attempt > 0) => Retryable(resp)
        /\ rpc = "returned" => ~Retryable(resp)
        /\ (rpc = "returned" /\ attempt = 2 /\ prev = StatusInternalServerError
                /\ resp.status = StatusOK /\ resp.body = "envelope") => (retries = 1 /\ outcome = "decoded")

\* C8 (amended): with the default policy an attempt is retried if and only if
\* it returned 429 or >= 500 without a transport error, the context is not
\* cancelled and fewer than RetryMax retries have been made; a 400 is never
\* retried; with the context not cancelled, 500 then 200 gives one retried
\* call and a decoded result.
C8_Thm ==
    DefaultPolicy =>
        /\ (rpc = "attempt" /\ attempt > 0) => (Retryable(resp) /\ attempt <= RetryMax /\ ~decision.cancelled)
        /\ rpc = "returned" => (~Retryable(resp) \/ ctxErr \/ attempt = RetryMax + 1)
        /\ (rpc = "returned" /\ attempt = 2 /\ prev = StatusInternalServerError /\ ~ctxErr
                /\ resp.status = StatusOK /\ resp.body = "envelope") => (retries = 1 /\ outcome = "decoded")

C8_Witness ==
    /\ DefaultPolicy
    /\ rpc = "returned"
    /\ attempt = 2
    /\ prev = StatusInternalServerError
    /\ resp.status = StatusOK
    /\ retries = 1
    /\ outcome = "decoded"

\* C9 (as stated): a client constructed with WithDisableRetries never retries.
C9_Orig == (\E i \in DOMAIN opts : opts[i].name = "WithDisableRetries") => retries = 0

\* C10: when the context is cancelled at the time retryHTTPCheck is asked, it
\* answers "do not retry" together with the context's error, whatever the
\* response or transport error, and the call ends with that error and no
\* further attempt.
C10_Thm ==
    (client.CheckRetry = "retryHTTPCheck" /\ decision.cancelled) =>
        /\ ~decision.shouldRetry
        /\ decision.checkErr = "context"
        /\ rpc \in {"finish", "returned"}
        /\ rpc = "returned" => outcome = "context error"

C10_Witness ==
    /\ client.CheckRetry = "retryHTTPCheck"
    /\ decision.cancelled
    /\ resp.status = StatusInternalServerError
    /\ rpc = "returned"
    /\ attempt = 1

\* generateSecureHashFrom(req, labKey) has been called
Hashed == digest # NoDigest

\* a field of fs is tagged json:"paymentHeader"
HasHeader(fs) == \E i \in 1..Len(fs) : fs[i].json = "paymentHeader"

\* the first field of fs that is tagged json:"paymentHeader"
Header(fs) ==
    fs[CHOOSE i \in 1..Len(fs) : fs[i].json = "paymentHeader" /\ \A j \in 1..(i - 1) : fs[j].json # "paymentHeader"]

\* C11 (as stated): for every request that declares a field with wire-name
\* paymentHeader and every key, the hash of the request equals the hash of
\* the value of that field; the other fields never influence it.
C11_Orig ==
    (Hashed /\ HasHeader(req.fields)) =>
        digest = generateSecureHashFrom(Header(req.fields).value, labKey)

RECURSIVE Concat(_)
\* the canonical strings of the fields of fs, one after the other
Concat(fs) == IF fs = <<>> THEN <<>> ELSE formatToStr(Head(fs).value) \o Concat(Tail(fs))

\* the fields C12 says are hashed
EligibleAsStated(f) ==
    f.exported /\ ~f.anonymous /\ f.securehash # "ignore" /\ f.json \notin {"", "-", "secureHash"}

\* C12 (as stated): for a request without a nested-header field the hash
\* input is the concatenation, in declaration order, of the canonical
\* strings of the fields that are exported, not embedded, not marked
\* securehash:"ignore" and whose wire-name is neither empty nor "-" nor
\* "secureHash", followed by the key.
C12_Orig ==
    (Hashed /\ ~HasHeader(req.fields)) =>
        digest = [panic |-> FALSE, sha512 |-> Concat(SelectSeq(req.fields, EligibleAsStated)) \o labKey]

\* the fields that are hashed: a field without a json tag is one of them
Eligible(f) ==
    f.exported /\ ~f.anonymous /\ f.securehash # "ignore" /\ f.json \notin {"-", "secureHash"}

\* C12 (amended): ... of the fields that are exported, not embedded, not
\* marked securehash:"ignore" and whose json tag is neither "-" nor
\* "secureHash", followed by the key; a field without a json tag is hashed.
C12_Thm ==
    (Hashed /\ ~HasHeader(req.fields)) =>
        digest = [panic |-> FALSE, sha512 |-> Concat(SelectSeq(req.fields, Eligible)) \o labKey]

C12_Witness ==
    /\ Hashed
    /\ Len(req.fields) = 3
    /\ req.fields[1] = Field(Plain, StringValue(<<"a">>))
    /\ req.fields[2].json = "-"
    /\ req.fields[3] = Field(Plain, IntValue(0))
    /\ labKey = <<"k">>
    /\ digest.sha512 = <<"a", "0", "k">>

\* the value v is empty: the empty string, or a struct of empty values
ValueEmpty(v) ==
    /\ formatToStr(v) = <<>>
    /\ \A i \in 1..Len(v.fields) : formatToStr(v.fields[i].value) = <<>> \/ v.fields[i].securehash = "ignore"

\* no field of fs has anything to hash: each is marked securehash:"ignore"
\* or its value is empty
ZeroEligible(fs) == \A i \in 1..Len(fs) : fs[i].securehash = "ignore" \/ ValueEmpty(fs[i].value)

\* C13 (as stated): for a request with zero hash-eligible fields (no fields,
\* every field hash-excluded, or all values empty) the hash does not fail
\* and is the digest of the key alone.
C13_Orig == (Hashed /\ ZeroEligible(req.fields)) => digest = generateSecureHash(<<>>, labKey)

\* C14: NewRequest writes a computed hash into the options only when their
\* hash field is empty; a hash that is present, supplied by the caller or
\* computed by an earlier NewRequest, is left as it is by every further
\* NewRequest, whatever has become of the other fields, and is the hash the
\* body carries.  The hash is computed for options that embed secureHashOption.
C14_Thm ==
    [][nreq' # nreq =>
        /\ secureHash # <<>> => secureHash' = secureHash
        /\ hasher /\ secureHash = <<>> => secureHash' = Hex(generateSecureHashFrom(StructValue(req.fields \o <<secureHashOption>>), labKey))
        /\ body'.secureHash = secureHash']_vars

C14_Witness ==
    /\ nreq = 2
    /\ body.fields = req.fields
    /\ body.secureHash = secureHash
    /\ hasher
    /\ secureHash # <<>>
    /\ Head(secureHash) = "sha512"
    /\ secureHash # Hex(generateSecureHashFrom(StructValue(req.fields \o <<secureHashOption>>), labKey))

\* a call has decoded the body as an envelope: v is a pointer to a result
\* that is no BearerToken, and the body is an envelope
Decoded == ret.called /\ target = "T" /\ EnvelopeDecodes(httpBody)

\* C15: a decoded payload and an error aggregate exclude each other: no call
\* returns both, and when the errors list of the envelope is not empty the
\* call returns that list as a ResponseError, whose string form is the
\* messages joined by newlines, does not decode the content and returns no
\* typed result.
C15_Thm ==
    /\ ret.called => ~(ret.err.kind = "ResponseError" /\ (ret.v = "decoded" \/ ret.result = "decoded"))
    /\ (Decoded /\ httpBody.errors.list # <<>>) =>
        /\ ret.err.kind = "ResponseError"
        /\ ret.err.agg.msgs = httpBody.errors.list
        /\ Error(ret.err.agg) = Join(httpBody.errors.list, <<"\n">>)
        /\ ret.v = "zero"
        /\ ret.result = "nil"

C15_Witness ==
    /\ Decoded
    /\ httpBody.errors.list = <<<<"A">>, <<"B">>>>
    /\ httpBody.content = "object"
    /\ Error(ret.err.agg) = <<"A", "\n", "B">>
    /\ ret.result = "nil"

\* C16 (as stated): decoding an envelope gives the error outcome if and only
\* if its errors list is present and not empty; with the errors absent, null
\* or an empty list the call is a success: the content is decoded into the
\* target and no error is returned.
C16_Orig ==
    Decoded =>
        /\ ret.err.kind = "ResponseError" <=> (httpBody.errors.present = "list" /\ httpBody.errors.list # <<>>)
        /\ (httpBody.errors.list = <<>> /\ httpBody.content = "object") => (ret.err = NilError /\ ret.result = "decoded")

C18_Orig ==
    (Decoded /\ httpBody.errors.list = <<>> /\ httpBody.content \in {"absent", "emptystring"}) =>
        (ret.err = NilError /\ ret.result = "zero")

\* C19 (as stated): a ResponseError without messages, the zero value or an
\* empty collection made on purpose, has the string form "" and serializes
\* to the JSON list [], never to null.
C19_Orig ==
    ResponseErrorLen(agg) = 0 =>
        /\ Error(agg) = <<>>
        /\ String(agg) = <<>>
        /\ marshalled # NotMarshalled => marshalled = <<"[", "]">>

RECURSIVE Lines(_)
\* the messages ms, each but the last followed by a newline
Lines(ms) ==
    IF ms = <<>> THEN <<>>
    ELSE IF Tail(ms) = <<>> THEN Head(ms)
    ELSE Head(ms) \o <<"\n">> \o Lines(Tail(ms))

\* C20: after any sequence of Add calls Len is the number of calls, All
\* gives the messages in call order, and Error and String give them in that
\* order with one newline between two messages and none after the last.
C20_Thm ==
    /\ ResponseErrorLen(agg) = Len(added)
    /\ All(agg).msgs = added
    /\ Error(agg) = Lines(added)
    /\ String(agg) = Lines(added)

C20_Witness ==
    /\ added = <<<<"B">>, <<"A">>, <<"B">>>>
    /\ ResponseErrorLen(agg) = 3
    /\ Error(agg) = <<"B", "\n", "A", "\n", "B">>
    /\ marshalled = <<"[", "\"", "B", "\"", ",", "\"", "A", "\"", ",", "\"", "B", "\"", "]">>

\* ------------------------------------------------------------ C21 .. C23, C29
\* the text of the last UnmarshalJSON, without its quotes
Text == Unquoted(input)

\* the layouts of the list, by position, that parse the text of the last call
Accepting == {i \in 1..last.n : Parse(formats[i], Text).ok}

\* the last call was Time.UnmarshalJSON and it went through the list: the Time
\* has no layout of its own, or that layout did not parse the text
TriedList == last.op = "Time.UnmarshalJSON" /\ (tm.layout = <<>> \/ ~Parse(tm.layout, Text).ok)

Compact(t) == Pad(t.year, 4) \o Pad(t.month, 2) \o Pad(t.day, 2)

\* C22 as stated: a Date built by NewDate serializes as the quoted YYYYMMDD,
\* a Time as its time in its layout, in time.DateTime if it has none
C22_Orig ==
    /\ last.op = "Date.MarshalJSON" /\ tm.layout = dateFormat => output = Quote(Compact(tm.time))
    /\ last.op = "Time.MarshalJSON" =>
        output = Quote(Format(IF tm.layout = <<>> THEN DateTime ELSE tm.layout, tm.time))

\* a point in time without a time of day
IsDay(t) == t.hour = 0 /\ t.min = 0 /\ t.sec = 0 /\ t.ms = 0

\* C23 as stated: Date.UnmarshalJSON of the bytes Date.MarshalJSON gives for
\* NewDate(d), d without a time of day, returns no error and leaves the day d;
\* Date.UnmarshalJSON parses with the layout YYYYMMDD and no other
C23_Orig ==
    last.op = "Date.UnmarshalJSON" =>
        /\ \A d \in {v \in Instants : IsDay(v)} :
            input = DateMarshalJSON(NewDate(d)) => ~last.err /\ tm.time = d
        /\ last.err <=> ~Parse(dateFormat, Text).ok
        /\ ~last.err => tm.time = Parse(dateFormat, Text).time

\* C29 as stated: a Time.UnmarshalJSON that returns an error leaves the time
\* the Time held; it returns no error when the layout of the Time or a layout
\* of the list parses the text
C29_Orig ==
    last.op = "Time.UnmarshalJSON" =>
        /\ last.err => tm.time = held
        /\ (tm.layout # <<>> /\ Parse(tm.layout, Text).ok) \/ Accepting # {} => ~last.err

\* ------------------------------------------------------------------- C24
\* s is the base-10 form of n: an optional minus sign, then digits without a
\* leading zero whose value is the magnitude of n
IsDecimalOf(s, n) ==
    LET ds == IF n < 0 THEN Tail(s) ELSE s
    IN  /\ n < 0 => s # <<>> /\ s[1] = "-"
        /\ ds # <<>>
        /\ DigitRun(ds) = Len(ds)
        /\ Len(ds) > 1 => ds[1] # "0"
        /\ Atoi(ds) = (IF n < 0 THEN 0 - n ELSE n)

\* the types formatToStr has a case for
Recognised == {"string", "bool", "json.Number", "[]byte", "fmt.Stringer", "nil *Time"} \cup SignedTypes \cup UnsignedTypes \cup QuarterTypes

\* C24 as stated: formatToStr never panics; it returns a string unchanged,
\* "true" or "false" for a bool, the base-10 form of an integer of any width,
\* signed or not, and "" for a value of a type it has no case for
C24_Orig ==
    fout.called =>
        /\ ~fout.panic
        /\ fval.type = "string" => fout.s = fval.s
        /\ fval.type = "bool" => fout.s = (IF fval.n = 1 THEN <<"t", "r", "u", "e">> ELSE <<"f", "a", "l", "s", "e">>)
        /\ fval.type \in SignedTypes \cup UnsignedTypes => IsDecimalOf(fout.s, fval.n)
        /\ fval.type \notin Recognised => fout.s = <<>>

\* ------------------------------------------------------------- C25, C27
\* http.Header.Get: the first value, "" when the header is absent
HeaderGet(h) == IF h = <<>> THEN "" ELSE h[1]

\* C25 as stated: a request built by NewRequest carries the User-Agent the
\* client is configured with, the value handed to WithUserAgent or else the
\* default "go-ecobank"
C25_Orig == nreq > 0 => HeaderGet(uaHeader) = UserAgent

\* C27 as stated: the body NewRequest builds for options whose wire form has
\* a secureHash field carries a secure hash that is not empty, whether the
\* type embeds secureHashOption or, as AccountEnquiryThirdPartyOptions, has a
\* SecureHash field of its own
C27_Orig == nreq > 0 => body.secureHash # <<>>

\* ------------------------------------------------------------------- C26
\* C26 as stated: once a login has stored its token, the stored expiry is
\* that of the token stored, its own exp claim or, if it has none, the time
\* of the login plus defaultTokenExpiry; it is never the expiry of the token
\* held before
C26_Orig ==
    token.id \in Procs =>
        IF token.exp # 0 THEN tokenExpiresAt = token.exp
        ELSE tokenExpiresAt - defaultTokenExpiry \in 1..now

\* ------------------------------------------------------------------- C30
\* C30 as stated: a call that has obtained an HTTP response has drained and
\* closed its body when it returns, with or without an error and with or
\* without a target to decode into
C30_Orig == ret.called => ret.closed

\* ------------------------------------------------------------------- C28
\* C28 as stated: whatever the options, every service handle of the client
\* NewClient returns is a service of that client, not nil, so that the call
\* of a service method does not panic
C28_Orig ==
    svcCall.called =>
        /\ \A sv \in Services : handles[sv] = "c"
        /\ ~svcCall.panic

====
